---- MODULE Spec2Model ----
(***************************************************************************)
(* The staged UGC import pipeline: the manual import route, the CSV import *)
(* route, the ImportLogger they share and the tables they write.           *)
(* Every awaited store call is one step of an invocation; a store call     *)
(* either completes or throws.                                             *)
(***************************************************************************)
EXTENDS Naturals, Integers, Sequences, FiniteSets, TLC

VARIABLES
    inv,            \* per invocation: the locals of the route handler and of its ImportLogger
    importLog,      \* table import_logs, by run id
    entries,        \* table import_log_entries, by run id, in insertion order
    ugcPost,        \* table ugc_posts
    rightsRequest,  \* table rights_requests
    faults,         \* store calls that may still throw for a reason outside the program
    sameMs,         \* log appends that may still fall into the millisecond of the previous one
    maxBatch,       \* the most rows a CSV request carries
    feed            \* the rows and bodies the requests may carry

vars == <<inv, importLog, entries, ugcPost, rightsRequest, faults, sameMs, maxBatch, feed>>

----------------------------------------------------------------------------
(* Bounds *)

MaxRows == 2
MaxFaults == 2
MaxSameMs == 1
MaxCaptionLen == 3
LongBatch == 12

(* Program constants *)

ProgressEvery == 5
MaxErrorsReturned == 10

Procs == {"i1", "i2"}
Workspaces == {"w1", "w2"}

NoLogId == "none"
NoLog == [status |-> "NONE"]
NULL == "NULL"

\* an optional field of a request: absent, or given with a value
Absent == <<>>
Given(x) == <<x>>

NoRow == [platform |-> "none", postUrl |-> "none", caption |-> Absent, hashtags |-> Absent]

----------------------------------------------------------------------------
(* Text: a string is the sequence of its characters *)

UpperCase ==
    <<"A", "B", "C", "D", "E", "F", "G", "H", "I", "J", "K", "L", "M",
      "N", "O", "P", "Q", "R", "S", "T", "U", "V", "W", "X", "Y", "Z">>

LowerCase ==
    <<"a", "b", "c", "d", "e", "f", "g", "h", "i", "j", "k", "l", "m",
      "n", "o", "p", "q", "r", "s", "t", "u", "v", "w", "x", "y", "z">>

Digit == {"0", "1", "2", "3", "4", "5", "6", "7", "8", "9"}

Letters(alphabet) == {alphabet[k] : k \in DOMAIN alphabet}

\* the class \w of a regular expression
WordChar(c) == c \in Letters(UpperCase) \cup Letters(LowerCase) \cup Digit \cup {"_"}

\* String.prototype.toLowerCase
toLowerCase(text) ==
    [k \in 1 .. Len(text) |->
        IF text[k] \in Letters(UpperCase)
        THEN LowerCase[CHOOSE j \in DOMAIN UpperCase : UpperCase[j] = text[k]]
        ELSE text[k]]

\* String.prototype.slice(1)
slice1(text) == SubSeq(text, 2, Len(text))

RECURSIVE WordRunEnd(_, _)
\* where the greedy [\w]+ that begins at k stops
WordRunEnd(text, k) ==
    IF k < Len(text) /\ WordChar(text[k + 1]) THEN WordRunEnd(text, k + 1) ELSE k

RECURSIVE MatchHashtags(_, _)
\* caption.match(/#[\w]+/g) || [], searched from position from
MatchHashtags(caption, from) ==
    IF from > Len(caption) THEN <<>>
    ELSE IF caption[from] = "#" /\ from < Len(caption) /\ WordChar(caption[from + 1])
    THEN LET end == WordRunEnd(caption, from + 1)
         IN  <<SubSeq(caption, from, end)>> \o MatchHashtags(caption, end + 1)
    ELSE MatchHashtags(caption, from + 1)

\* mutant: the tags keep the case of the caption
extractHashtags_KeepCase(caption) ==
    LET matches == MatchHashtags(caption, 1)
    IN  [k \in 1 .. Len(matches) |-> slice1(matches[k])]

extractHashtags(caption) ==
    LET matches == MatchHashtags(caption, 1)
    IN  [k \in 1 .. Len(matches) |-> toLowerCase(slice1(matches[k]))]

RECURSIVE split(_, _)
\* String.prototype.split(separator), for a separator of one character
split(text, separator) ==
    IF \A k \in 1 .. Len(text) : text[k] # separator THEN <<text>>
    ELSE LET at == CHOOSE k \in 1 .. Len(text) :
                      text[k] = separator /\ \A j \in 1 .. k - 1 : text[j] # separator
         IN  <<SubSeq(text, 1, at - 1)>> \o split(SubSeq(text, at + 1, Len(text)), separator)

\* String.prototype.trim, the white space being the blank
trim(text) ==
    LET inked == {k \in 1 .. Len(text) : text[k] # " "}
    IN  IF inked = {} THEN <<>>
        ELSE SubSeq(text, CHOOSE k \in inked : \A j \in inked : k <= j,
                          CHOOSE k \in inked : \A j \in inked : k >= j)

\* String.prototype.replace(/^#/, '')
stripHash(text) == IF text # <<>> /\ text[1] = "#" THEN slice1(text) ELSE text

----------------------------------------------------------------------------
(* Validation schemas *)

Platform == {"TIKTOK", "INSTAGRAM", "YOUTUBE", "MANUAL"}

\* z.string().url() on the strings the requests below carry
urlSchema(u) == u \in {"https://x.com/a", "https://x.com/b"}

toUpperCase(s) ==
    CASE s = "tiktok"    -> "TIKTOK"
      [] s = "TikTok"    -> "TIKTOK"
      [] s = "instagram" -> "INSTAGRAM"
      [] s = "snapchat"  -> "SNAPCHAT"
      [] OTHER           -> s

\* the rows a CSV request may carry, with the given caption and hashtags
CsvRowsWith(captions, hashtags) ==
    [post_url : {"https://x.com/a", "not-a-url"},
     platform : {"tiktok", "INSTAGRAM", "snapchat"},
     creator_handle : {"u1", ""},
     caption : captions,
     hashtags : hashtags]

CsvRows == CsvRowsWith({Absent}, {Absent})

\* the bodies a manual request may carry, with the given caption and hashtags
ManualBodiesWith(captions, hashtags) ==
    [postUrl : {"https://x.com/a", "not-a-url"},
     platform : {"TIKTOK", "INSTAGRAM", "tiktok"},
     creatorHandle : {"u1", ""},
     caption : captions,
     hashtags : hashtags]

ManualBodies == ManualBodiesWith({Absent}, {Absent})

\* mutant: every CSV row parses
importUgcCsvRowSchema_Anything(row) == TRUE

\* importUgcCsvRowSchema.safeParse(row).success
importUgcCsvRowSchema(row) ==
    /\ urlSchema(row.post_url)
    /\ row.creator_handle # ""

\* validation.data of a CSV row: the platform is upper-cased, not matched
CsvValidated(row) ==
    [platform |-> toUpperCase(row.platform), postUrl |-> row.post_url,
     caption |-> row.caption, hashtags |-> row.hashtags]

\* the hashtags a CSV row is stored with
CsvHashtags(validatedRow) ==
    IF validatedRow.hashtags # Absent /\ validatedRow.hashtags[1] # <<>>
    THEN LET pieces == split(validatedRow.hashtags[1], ",")
         IN  [k \in 1 .. Len(pieces) |-> stripHash(toLowerCase(trim(pieces[k])))]
    ELSE <<>>

\* importUgcManualSchema.safeParse(body).success
importUgcManualSchema(body) ==
    /\ urlSchema(body.postUrl)
    /\ body.platform \in Platform
    /\ body.creatorHandle # ""

ManualValidated(body) ==
    [platform |-> body.platform, postUrl |-> body.postUrl,
     caption |-> body.caption, hashtags |-> body.hashtags]

\* extractedHashtags of the manual route
ManualExtractedHashtags(body) ==
    IF body.hashtags # Absent THEN body.hashtags[1]
    ELSE IF body.caption # Absent THEN extractHashtags(body.caption[1])
    ELSE <<>>

----------------------------------------------------------------------------
(* Permissions *)

WorkspaceRole == {"OWNER", "ADMIN", "MEMBER", "ANALYST"}

roleHierarchy(role) ==
    CASE role = "OWNER"   -> 4
      [] role = "ADMIN"   -> 3
      [] role = "MEMBER"  -> 2
      [] role = "ANALYST" -> 1

permissionLevel(perm) ==
    CASE perm = "read"  -> 1
      [] perm = "write" -> 2
      [] perm = "admin" -> 3
      [] perm = "owner" -> 4

\* mutant: any member of the workspace passes
hasPermission_AnyMember(role, requiredPermission) ==
    roleHierarchy(role) >= permissionLevel("read")

hasPermission(role, requiredPermission) ==
    roleHierarchy(role) >= permissionLevel(requiredPermission)

----------------------------------------------------------------------------
(* Aggregate status of a CSV run *)

\* mutant: any failed row fails the run
finalStatusOf_AnyFailed(failed, total) ==
    IF failed > 0 THEN "FAILED" ELSE "COMPLETED"

finalStatusOf(failed, total) ==
    IF failed = total THEN "FAILED"
    ELSE IF failed > 0 THEN "PARTIAL"
    ELSE "COMPLETED"

----------------------------------------------------------------------------
(* Tables *)

\* the unique index ugc_posts(workspaceId, platform, postUrl)
ExistingPosts(ws, platform, postUrl) ==
    {q \in ugcPost : q.workspaceId = ws /\ q.platform = platform /\ q.postUrl = postUrl}

\* mutant: the table has no unique index on (workspaceId, platform, postUrl)
UgcPostCreateRejected_NoUniqueIndex(ws, row) == row.platform \notin Platform

\* prisma.ugcPost.create is rejected: unique index, or a value outside the enum
UgcPostCreateRejected(ws, row) ==
    \/ row.platform \notin Platform
    \/ ExistingPosts(ws, row.platform, row.postUrl) # {}

\* prisma.ugcPost.findFirst is rejected: a value outside the enum
UgcPostFindRejected(row) == row.platform \notin Platform

NewPost(p, ws, row, source) ==
    [id |-> <<p, inv[p].i>>, workspaceId |-> ws, platform |-> row.platform,
     postUrl |-> row.postUrl, importSource |-> source,
     hashtags |-> IF source = "csv" THEN CsvHashtags(row)
                  ELSE ManualExtractedHashtags(row)]

\* mutant: the rights request is created as already sent
NewRightsRequest_Requested(ws, postId) ==
    [ugcPostId |-> postId, workspaceId |-> ws, status |-> "REQUESTED"]

NewRightsRequest(ws, postId) ==
    [ugcPostId |-> postId, workspaceId |-> ws, status |-> "PENDING"]

\* createdAt of a run is its rank among the runs created so far
NewImportLog(ws, source, totalItems) ==
    [workspaceId |-> ws, source |-> source, status |-> "PROCESSING",
     totalItems |-> totalItems, processed |-> 0, succeeded |-> 0, failed |-> 0,
     completedAt |-> NULL, closed |-> 0,
     createdAt |-> Cardinality({r \in DOMAIN importLog : importLog[r].status # "NONE"}) + 1]

----------------------------------------------------------------------------
(* A store call throws for a reason outside the program *)

Fault == faults > 0 /\ faults' = faults - 1
NoFault == UNCHANGED faults

----------------------------------------------------------------------------
(* Initial state *)

IdleInv ==
    [pc |-> "idle", route |-> "none", ws |-> "none", loggerWs |-> "none",
     logId |-> NoLogId, total |-> 0, i |-> 0, row |-> NoRow,
     imported |-> 0, skipped |-> 0, failed |-> 0, errors |-> <<>>,
     finalStatus |-> "none", failCtx |-> "none", resp |-> 0,
     thrown |-> 0, created |-> 0, lost |-> 0, allDup |-> TRUE, after |-> {}]

\* posts imported before the invocations that are followed here
SeedPosts ==
    {[id |-> <<"seed", 1>>, workspaceId |-> "w1", platform |-> "TIKTOK",
      postUrl |-> "https://x.com/a", importSource |-> "csv", hashtags |-> <<>>],
     [id |-> <<"seed", 2>>, workspaceId |-> "w1", platform |-> "INSTAGRAM",
      postUrl |-> "https://x.com/a", importSource |-> "manual", hashtags |-> <<>>]}

\* a row that is imported once and a duplicate from then on, a row that
\* fails validation, a row the store rejects, any other row
RowKind(row) ==
    IF row.creator_handle = "u1" /\ row.post_url = "https://x.com/a" /\ row.platform = "tiktok"
    THEN "new"
    ELSE IF row.creator_handle = "u1" /\ row.post_url = "not-a-url" /\ row.platform = "tiktok"
    THEN "invalid"
    ELSE IF row.creator_handle = "u1" /\ row.post_url = "https://x.com/a"
            /\ row.platform = "snapchat"
    THEN "rejected"
    ELSE "other"

\* the requests that may arrive: the caption and the hashtags their rows and
\* bodies carry, and the kind of the CSV rows up to number split (head) and
\* after it (tail)
PlainFeed ==
    [caption |-> Absent, csvHashtags |-> Absent, manualHashtags |-> Absent,
     head |-> "any", tail |-> "any", split |-> 0]

\* rows[rowNum - 1] of a CSV request: the rows it may be
RowsAt(rowNum) ==
    LET kind == IF rowNum <= feed.split THEN feed.head ELSE feed.tail
    IN  {row \in CsvRowsWith({feed.caption}, {feed.csvHashtags}) :
            kind = "any" \/ RowKind(row) = kind}

\* the body of a manual request: the bodies it may be
Bodies == ManualBodiesWith({feed.caption}, {feed.manualHashtags})

\* one invocation, against a store that holds any of the earlier posts;
\* store calls may throw and log appends may share a millisecond
Init ==
    /\ inv = [p \in Procs |-> IF p = "i1" THEN IdleInv ELSE [IdleInv EXCEPT !.pc = "off"]]
    /\ importLog = [p \in Procs |-> NoLog]
    /\ entries = [p \in Procs |-> <<>>]
    /\ ugcPost \in SUBSET SeedPosts
    /\ rightsRequest = {NewRightsRequest(q.workspaceId, q.id) : q \in ugcPost}
    /\ faults = MaxFaults
    /\ sameMs = MaxSameMs
    /\ maxBatch = MaxRows
    /\ feed = PlainFeed

\* two invocations, interleaved at every awaited store call, on an empty store;
\* a CSV request carries at most one row and one store call may throw
InitConcurrent ==
    /\ inv = [p \in Procs |-> IdleInv]
    /\ importLog = [p \in Procs |-> NoLog]
    /\ entries = [p \in Procs |-> <<>>]
    /\ ugcPost = {}
    /\ rightsRequest = {}
    /\ faults = 1
    /\ sameMs = 0
    /\ maxBatch = 1
    /\ feed = PlainFeed

\* every text of at most n characters of the alphabet
Texts(alphabet, n) == UNION {[1 .. k -> alphabet] : k \in 0 .. n}

\* a marker, a lower-case and an upper-case word character, and a blank
CaptionAlphabet == {"#", "a", "B", " "}

\* "Great #Deal and #SUMMER23!"
GreatDeal ==
    <<"G", "r", "e", "a", "t", " ", "#", "D", "e", "a", "l", " ", "a", "n", "d", " ",
      "#", "S", "U", "M", "M", "E", "R", "2", "3", "!">>

NamedCaptions ==
    {GreatDeal,
     <<"H", "e", "l", "l", "o", " ", "#", "w", "o", "r", "l", "d", " ", "#", "t", "e", "s", "t">>,
     <<"H", "e", "l", "l", "o", " ", "w", "o", "r", "l", "d">>,
     <<"#", "H", "E", "L", "L", "O", " ", "#", "W", "o", "r", "l", "d">>,
     <<"#", "a", "_", "1", "-", "#", "Z", ",", "#", ".", "#", "a", "_", "1">>}

Captions == Texts(CaptionAlphabet, MaxCaptionLen) \cup NamedCaptions

\* the hashtags column of a CSV row: "", "A", "#A, b", "a,,B"
CsvHashtagTexts ==
    {<<>>, <<"A">>, <<"#", "A", ",", " ", "b">>, <<"a", ",", ",", "B">>}

\* the hashtags array of a manual body: [], ["Deal"], ["a", "#B"]
ManualHashtagLists ==
    {<<>>, << <<"D", "e", "a", "l">> >>, << <<"a">>, <<"#", "B">> >>}

\* requests whose rows and bodies all carry one caption and no hashtags, or
\* one caption and explicit hashtags
TagFeeds ==
    {[PlainFeed EXCEPT !.caption = c] : c \in {Absent} \cup {Given(t) : t \in Captions}}
    \cup
    {[PlainFeed EXCEPT !.caption = Given(GreatDeal), !.csvHashtags = Given(h),
                       !.manualHashtags = Given(l)] :
        h \in CsvHashtagTexts, l \in ManualHashtagLists}

\* one invocation of one row, whose caption and hashtags are drawn from the
\* texts above; one store call may throw
InitTags ==
    /\ inv = [p \in Procs |-> IF p = "i1" THEN IdleInv ELSE [IdleInv EXCEPT !.pc = "off"]]
    /\ importLog = [p \in Procs |-> NoLog]
    /\ entries = [p \in Procs |-> <<>>]
    /\ ugcPost = SeedPosts
    /\ rightsRequest = {NewRightsRequest(q.workspaceId, q.id) : q \in ugcPost}
    /\ faults = 1
    /\ sameMs = 0
    /\ maxBatch = 1
    /\ feed \in TagFeeds

BatchRowKinds == {"new", "invalid", "rejected"}

\* batches whose rows up to some number are one row and after it another
BatchFeeds ==
    {[PlainFeed EXCEPT !.head = b[1], !.tail = b[2], !.split = b[3]] :
        b \in {x \in BatchRowKinds \X BatchRowKinds \X (1 .. LongBatch) :
                  x[1] = x[2] => x[3] = LongBatch}}

\* one invocation, a CSV request of up to LongBatch rows among them; one
\* store call may throw
InitBatch ==
    /\ inv = [p \in Procs |-> IF p = "i1" THEN IdleInv ELSE [IdleInv EXCEPT !.pc = "off"]]
    /\ importLog = [p \in Procs |-> NoLog]
    /\ entries = [p \in Procs |-> <<>>]
    /\ ugcPost = SeedPosts
    /\ rightsRequest = {NewRightsRequest(q.workspaceId, q.id) : q \in ugcPost}
    /\ faults = 1
    /\ sameMs = 0
    /\ maxBatch = LongBatch
    /\ feed \in BatchFeeds

----------------------------------------------------------------------------
(* ImportLogger *)

Me(p) == inv[p]

SetInv(p, r) == inv' = [inv EXCEPT ![p] = r]

LastCreatedAt(log) == IF log = <<>> THEN 0 ELSE log[Len(log)].createdAt

\* ImportLogger.log: one row of import_log_entries; createdAt is the store's
\* clock in milliseconds, counted from the first entry of the run
LoggerLog(p, step, status) ==
    /\ Me(p).logId # NoLogId
    /\ \E tie \in {FALSE} \cup {t \in {TRUE} : sameMs > 0 /\ entries[Me(p).logId] # <<>>} :
          /\ entries' = [entries EXCEPT ![Me(p).logId] =
                 Append(@, [step |-> step, status |-> status,
                            createdAt |-> IF tie THEN LastCreatedAt(@)
                                          ELSE LastCreatedAt(@) + 1])]
          /\ sameMs' = IF tie THEN sameMs - 1 ELSE sameMs

\* an awaited logger.info / success / warning / error: appended, or thrown
LogStep(p, step, status, done, thrown) ==
    \/ /\ LoggerLog(p, step, status)
       /\ NoFault
       /\ SetInv(p, done)
       /\ UNCHANGED <<importLog, ugcPost, rightsRequest, maxBatch, feed>>
    \/ /\ Fault
       /\ SetInv(p, thrown)
       /\ UNCHANGED <<importLog, entries, ugcPost, rightsRequest, sameMs, maxBatch, feed>>

\* mutant: the run is stored although start() throws
LoggerStart_StoredThenThrown(p, done, thrown) ==
    \/ /\ NoFault
       /\ importLog' = [importLog EXCEPT ![p] =
              NewImportLog(Me(p).loggerWs, Me(p).route, Me(p).total)]
       /\ SetInv(p, [done EXCEPT !.logId = p])
       /\ UNCHANGED <<entries, ugcPost, rightsRequest, sameMs, maxBatch, feed>>
    \/ /\ Fault
       /\ importLog' = [importLog EXCEPT ![p] =
              NewImportLog(Me(p).loggerWs, Me(p).route, Me(p).total)]
       /\ SetInv(p, thrown)
       /\ UNCHANGED <<entries, ugcPost, rightsRequest, sameMs, maxBatch, feed>>

\* ImportLogger.start
LoggerStart(p, done, thrown) ==
    \/ /\ NoFault
       /\ importLog' = [importLog EXCEPT ![p] =
              NewImportLog(Me(p).loggerWs, Me(p).route, Me(p).total)]
       /\ SetInv(p, [done EXCEPT !.logId = p])
       /\ UNCHANGED <<entries, ugcPost, rightsRequest, sameMs, maxBatch, feed>>
    \/ /\ Fault
       /\ SetInv(p, thrown)
       /\ UNCHANGED <<importLog, entries, ugcPost, rightsRequest, sameMs, maxBatch, feed>>

\* ImportLogger.updateProgress
UpdateProgress(p, processed, succeeded, failed, done, thrown) ==
    \/ /\ NoFault
       /\ importLog' = IF Me(p).logId = NoLogId THEN importLog
                       ELSE [importLog EXCEPT ![Me(p).logId] =
                               [@ EXCEPT !.processed = processed,
                                         !.succeeded = succeeded,
                                         !.failed = failed]]
       /\ SetInv(p, done)
       /\ UNCHANGED <<entries, ugcPost, rightsRequest, sameMs, maxBatch, feed>>
    \/ /\ Fault
       /\ SetInv(p, thrown)
       /\ UNCHANGED <<importLog, entries, ugcPost, rightsRequest, sameMs, maxBatch, feed>>

\* the importLog.update that closes a run, in complete() and in fail()
CloseRun(p, status, done, thrown) ==
    \/ /\ NoFault
       /\ importLog' = [importLog EXCEPT ![Me(p).logId] =
              [@ EXCEPT !.status = status, !.completedAt = "set",
                        !.closed = @ + 1]]
       /\ SetInv(p, done)
       /\ UNCHANGED <<entries, ugcPost, rightsRequest, sameMs, maxBatch, feed>>
    \/ /\ Fault
       /\ SetInv(p, thrown)
       /\ UNCHANGED <<importLog, entries, ugcPost, rightsRequest, sameMs, maxBatch, feed>>

----------------------------------------------------------------------------
(* A request arrives *)

Begin(p) ==
    /\ Me(p).pc = "idle"
    /\ \E route \in {"manual", "csv"} :
          SetInv(p, [Me(p) EXCEPT !.pc = "auth", !.route = route,
                                  !.loggerWs = IF route = "manual" THEN "" ELSE "none",
                                  !.after = {q \in Procs : inv[q].pc = "done"}])
    /\ UNCHANGED <<importLog, entries, ugcPost, rightsRequest, faults, sameMs, maxBatch, feed>>

\* the response is sent; nothing of the invocation runs after it
Respond(me, code) ==
    [me EXCEPT !.pc = "done", !.resp = code, !.i = 0,
               !.failCtx = "none", !.finalStatus = "none"]

\* an exception leaves the route handler's catch block
Unhandled(me) == [Respond(me, 500) EXCEPT !.thrown = @ + 1, !.failCtx = "unhandled"]

----------------------------------------------------------------------------
(* POST /api/workspaces/[slug]/ugc/import/csv *)

\* catch (error) of the handler
CsvCatch(me) ==
    IF me.logId # NoLogId
    THEN [me EXCEPT !.pc = "c_catch_error", !.thrown = @ + 1]
    ELSE [Respond(me, 500) EXCEPT !.thrown = @ + 1]

\* mutant: a failure inside a row is rethrown to the handler
CsvRowCatch_Rethrow(me) == CsvCatch(me)

\* catch (err) of a row: the row counts as failed
CsvRowCatch(me) ==
    [me EXCEPT !.pc = "c_row_error", !.failed = @ + 1, !.thrown = @ + 1,
               !.errors = Append(@, me.i)]

\* the for statement: the next row, or the end of the loop
CsvNextRow(me) ==
    IF me.i < me.total THEN [me EXCEPT !.pc = "c_row"]
    ELSE [me EXCEPT !.pc = "c_final",
                    !.finalStatus = finalStatusOf(me.failed, me.total)]

\* getWorkspaceContext, hasPermission, request.json and the rows check
CsvAuthorize(p) ==
    /\ Me(p).pc = "auth" /\ Me(p).route = "csv"
    /\ \/ SetInv(p, Respond(Me(p), 404))
       \/ \E ws \in Workspaces, role \in WorkspaceRole, n \in 0 .. maxBatch :
             SetInv(p, IF ~hasPermission(role, "write") THEN Respond(Me(p), 403)
                       ELSE IF n = 0 THEN Respond([Me(p) EXCEPT !.ws = ws], 400)
                       ELSE [Me(p) EXCEPT !.pc = "c_start", !.ws = ws,
                                          !.loggerWs = ws, !.total = n])
       \/ SetInv(p, CsvCatch(Me(p)))
    /\ UNCHANGED <<importLog, entries, ugcPost, rightsRequest, faults, sameMs, maxBatch, feed>>

CsvStart(p) ==
    /\ Me(p).pc = "c_start"
    /\ LoggerStart(p, [Me(p) EXCEPT !.pc = "c_info"], CsvCatch(Me(p)))

CsvInfo(p) ==
    /\ Me(p).pc = "c_info"
    /\ LogStep(p, "VALIDATING", "info", CsvNextRow(Me(p)), CsvCatch(Me(p)))

\* a row is read and validated
CsvRow(p) ==
    /\ Me(p).pc = "c_row"
    /\ \E row \in RowsAt(Me(p).i + 1) :
          LET me == [Me(p) EXCEPT !.i = @ + 1] IN
          SetInv(p, IF ~importUgcCsvRowSchema(row)
                    THEN [me EXCEPT !.pc = "c_invalid", !.failed = @ + 1,
                                    !.errors = Append(@, me.i),
                                    !.row = NoRow, !.allDup = FALSE]
                    ELSE [me EXCEPT !.pc = "c_find", !.row = CsvValidated(row)])
    /\ UNCHANGED <<importLog, entries, ugcPost, rightsRequest, faults, sameMs, maxBatch, feed>>

CsvInvalid(p) ==
    /\ Me(p).pc = "c_invalid"
    /\ LogStep(p, "VALIDATING", "error", CsvNextRow(Me(p)), CsvRowCatch(Me(p)))

\* mutant: a duplicate counts as a failed row
CsvOnDuplicate_Failed(me) == [me EXCEPT !.pc = "c_duplicate", !.failed = @ + 1]

\* the row when the lookup found a record
CsvOnDuplicate(me) == [me EXCEPT !.pc = "c_duplicate", !.skipped = @ + 1]

\* the row when the lookup found none
CsvOnNew(me) == [me EXCEPT !.pc = "c_create", !.allDup = FALSE]

CsvFind(p) ==
    /\ Me(p).pc = "c_find"
    /\ \/ /\ ~UgcPostFindRejected(Me(p).row)
          /\ NoFault
          /\ SetInv(p, IF ExistingPosts(Me(p).ws, Me(p).row.platform, Me(p).row.postUrl) # {}
                       THEN CsvOnDuplicate(Me(p))
                       ELSE CsvOnNew(Me(p)))
       \/ /\ UgcPostFindRejected(Me(p).row)
          /\ NoFault
          /\ SetInv(p, CsvRowCatch([Me(p) EXCEPT !.allDup = FALSE]))
       \/ /\ Fault
          /\ SetInv(p, CsvRowCatch(Me(p)))
    /\ UNCHANGED <<importLog, entries, ugcPost, rightsRequest, sameMs, maxBatch, feed>>

CsvDuplicate(p) ==
    /\ Me(p).pc = "c_duplicate"
    /\ LogStep(p, "CHECKING_DUPLICATE", "warning", CsvNextRow(Me(p)), CsvRowCatch(Me(p)))

CsvCreate(p) ==
    /\ Me(p).pc = "c_create"
    /\ \/ /\ ~UgcPostCreateRejected(Me(p).ws, Me(p).row)
          /\ NoFault
          /\ ugcPost' = ugcPost \cup {NewPost(p, Me(p).ws, Me(p).row, "csv")}
          /\ SetInv(p, [Me(p) EXCEPT !.pc = "c_rights", !.created = @ + 1])
       \/ /\ UgcPostCreateRejected(Me(p).ws, Me(p).row)
          /\ NoFault
          /\ SetInv(p, CsvRowCatch([Me(p) EXCEPT !.lost = @ + 1]))
          /\ UNCHANGED ugcPost
       \/ /\ Fault
          /\ SetInv(p, CsvRowCatch(Me(p)))
          /\ UNCHANGED ugcPost
    /\ UNCHANGED <<importLog, entries, rightsRequest, sameMs, maxBatch, feed>>

\* the row when prisma.rightsRequest.create threw
CsvOnRightsFailure(me) == CsvRowCatch(me)

CsvRights(p) ==
    /\ Me(p).pc = "c_rights"
    /\ \/ /\ NoFault
          /\ rightsRequest' = rightsRequest \cup {NewRightsRequest(Me(p).ws, <<p, Me(p).i>>)}
          /\ SetInv(p, [Me(p) EXCEPT !.pc = "c_imported", !.imported = @ + 1])
       \/ /\ Fault
          /\ SetInv(p, CsvOnRightsFailure(Me(p)))
          /\ UNCHANGED rightsRequest
    /\ UNCHANGED <<importLog, entries, ugcPost, sameMs, maxBatch, feed>>

CsvImported(p) ==
    /\ Me(p).pc = "c_imported"
    /\ LogStep(p, "CREATING_POST", "success",
               IF Me(p).i % ProgressEvery = 0 \/ Me(p).i = Me(p).total
               THEN [Me(p) EXCEPT !.pc = "c_progress"]
               ELSE CsvNextRow(Me(p)),
               CsvRowCatch(Me(p)))

CsvProgress(p) ==
    /\ Me(p).pc = "c_progress"
    /\ UpdateProgress(p, Me(p).i, Me(p).imported, Me(p).failed,
                      CsvNextRow(Me(p)), CsvRowCatch(Me(p)))

CsvRowError(p) ==
    /\ Me(p).pc = "c_row_error"
    /\ LogStep(p, "CREATING_POST", "error", CsvNextRow(Me(p)), CsvCatch(Me(p)))

CsvFinal(p) ==
    /\ Me(p).pc = "c_final"
    /\ UpdateProgress(p, Me(p).total, Me(p).imported, Me(p).failed,
                      [Me(p) EXCEPT !.pc = "complete_log"], CsvCatch(Me(p)))

CsvAudit(p) ==
    /\ Me(p).pc = "c_audit"
    /\ \/ /\ NoFault
          /\ SetInv(p, Respond(Me(p), 200))
       \/ /\ Fault
          /\ SetInv(p, CsvCatch(Me(p)))
    /\ UNCHANGED <<importLog, entries, ugcPost, rightsRequest, sameMs, maxBatch, feed>>

CsvCatchError(p) ==
    /\ Me(p).pc = "c_catch_error"
    /\ LogStep(p, "FAILED", "error",
               [Me(p) EXCEPT !.pc = "fail_log", !.failCtx = "catch"],
               Unhandled(Me(p)))

----------------------------------------------------------------------------
(* POST /api/workspaces/[slug]/ugc *)

\* catch (error) of the handler
ManualCatch(me) ==
    IF me.logId # NoLogId
    THEN [me EXCEPT !.pc = "m_catch_error", !.thrown = @ + 1]
    ELSE [Respond(me, 500) EXCEPT !.thrown = @ + 1]

\* catch (dbError) around prisma.ugcPost.create
ManualDbCatch(me) == [me EXCEPT !.pc = "m_db_error", !.thrown = @ + 1]

\* catch (dbError) around prisma.rightsRequest.create
ManualRightsCatch(me) == [me EXCEPT !.pc = "m_rights_warning", !.thrown = @ + 1]

\* mutant: the logger keeps the workspace it was constructed with
ManualAuthorize_TenantNotAssigned(p) ==
    /\ Me(p).pc = "auth" /\ Me(p).route = "manual"
    /\ \/ SetInv(p, Respond(Me(p), 404))
       \/ \E ws \in Workspaces, role \in WorkspaceRole :
             LET me == [Me(p) EXCEPT !.ws = ws, !.total = 1, !.i = 1] IN
             SetInv(p, IF ~hasPermission(role, "write") THEN Respond(me, 403)
                       ELSE [me EXCEPT !.pc = "m_start"])
       \/ SetInv(p, ManualCatch(Me(p)))
    /\ UNCHANGED <<importLog, entries, ugcPost, rightsRequest, faults, sameMs, maxBatch, feed>>

\* getWorkspaceContext, the logger's workspace, hasPermission, request.json
ManualAuthorize(p) ==
    /\ Me(p).pc = "auth" /\ Me(p).route = "manual"
    /\ \/ SetInv(p, Respond(Me(p), 404))
       \/ \E ws \in Workspaces, role \in WorkspaceRole :
             LET me == [Me(p) EXCEPT !.ws = ws, !.loggerWs = ws, !.total = 1, !.i = 1] IN
             SetInv(p, IF ~hasPermission(role, "write") THEN Respond(me, 403)
                       ELSE [me EXCEPT !.pc = "m_start"])
       \/ SetInv(p, ManualCatch(Me(p)))
    /\ UNCHANGED <<importLog, entries, ugcPost, rightsRequest, faults, sameMs, maxBatch, feed>>

ManualStart(p) ==
    /\ Me(p).pc = "m_start"
    /\ LoggerStart(p, [Me(p) EXCEPT !.pc = "m_info"], ManualCatch(Me(p)))

ManualInfo(p) ==
    /\ Me(p).pc = "m_info"
    /\ LogStep(p, "VALIDATING", "info",
               [Me(p) EXCEPT !.pc = "m_validate"], ManualCatch(Me(p)))

\* importUgcManualSchema.safeParse(body)
ManualValidate(p) ==
    /\ Me(p).pc = "m_validate"
    /\ \E body \in Bodies :
          SetInv(p, IF ~importUgcManualSchema(body)
                    THEN [Me(p) EXCEPT !.pc = "m_invalid"]
                    ELSE [Me(p) EXCEPT !.pc = "m_valid", !.row = ManualValidated(body)])
    /\ UNCHANGED <<importLog, entries, ugcPost, rightsRequest, faults, sameMs, maxBatch, feed>>

ManualInvalid(p) ==
    /\ Me(p).pc = "m_invalid"
    /\ LogStep(p, "VALIDATING", "error",
               [Me(p) EXCEPT !.pc = "fail_log", !.failCtx = "validation"],
               ManualCatch(Me(p)))

ManualValid(p) ==
    /\ Me(p).pc = "m_valid"
    /\ LogStep(p, "VALIDATING", "success",
               [Me(p) EXCEPT !.pc = "m_find_info"], ManualCatch(Me(p)))

ManualFindInfo(p) ==
    /\ Me(p).pc = "m_find_info"
    /\ LogStep(p, "CHECKING_DUPLICATE", "info",
               [Me(p) EXCEPT !.pc = "m_find"], ManualCatch(Me(p)))

\* the request when the lookup found a record
ManualOnDuplicate(me) == [me EXCEPT !.pc = "m_duplicate"]

ManualFind(p) ==
    /\ Me(p).pc = "m_find"
    /\ \/ /\ NoFault
          /\ SetInv(p, IF ExistingPosts(Me(p).ws, Me(p).row.platform, Me(p).row.postUrl) # {}
                       THEN ManualOnDuplicate(Me(p))
                       ELSE [Me(p) EXCEPT !.pc = "m_new", !.allDup = FALSE])
       \/ /\ Fault
          /\ SetInv(p, ManualCatch(Me(p)))
    /\ UNCHANGED <<importLog, entries, ugcPost, rightsRequest, sameMs, maxBatch, feed>>

\* what follows the warning about a duplicate
ManualAfterDuplicate(me) == [me EXCEPT !.pc = "fail_log", !.failCtx = "duplicate"]

ManualDuplicate(p) ==
    /\ Me(p).pc = "m_duplicate"
    /\ LogStep(p, "CHECKING_DUPLICATE", "warning",
               ManualAfterDuplicate(Me(p)), ManualCatch(Me(p)))

ManualNew(p) ==
    /\ Me(p).pc = "m_new"
    /\ LogStep(p, "CHECKING_DUPLICATE", "success",
               [Me(p) EXCEPT !.pc = "m_hashtags_info"], ManualCatch(Me(p)))

ManualHashtagsInfo(p) ==
    /\ Me(p).pc = "m_hashtags_info"
    /\ LogStep(p, "EXTRACTING_HASHTAGS", "info",
               [Me(p) EXCEPT !.pc = "m_hashtags"], ManualCatch(Me(p)))

ManualHashtags(p) ==
    /\ Me(p).pc = "m_hashtags"
    /\ LogStep(p, "EXTRACTING_HASHTAGS", "success",
               [Me(p) EXCEPT !.pc = "m_create_info"], ManualCatch(Me(p)))

ManualCreateInfo(p) ==
    /\ Me(p).pc = "m_create_info"
    /\ LogStep(p, "CREATING_POST", "info",
               [Me(p) EXCEPT !.pc = "m_create"], ManualCatch(Me(p)))

ManualCreate(p) ==
    /\ Me(p).pc = "m_create"
    /\ \/ /\ ~UgcPostCreateRejected(Me(p).ws, Me(p).row)
          /\ NoFault
          /\ ugcPost' = ugcPost \cup {NewPost(p, Me(p).ws, Me(p).row, "manual")}
          /\ SetInv(p, [Me(p) EXCEPT !.pc = "m_created", !.created = @ + 1])
       \/ /\ UgcPostCreateRejected(Me(p).ws, Me(p).row)
          /\ NoFault
          /\ SetInv(p, ManualDbCatch([Me(p) EXCEPT !.lost = @ + 1]))
          /\ UNCHANGED ugcPost
       \/ /\ Fault
          /\ SetInv(p, ManualDbCatch(Me(p)))
          /\ UNCHANGED ugcPost
    /\ UNCHANGED <<importLog, entries, rightsRequest, sameMs, maxBatch, feed>>

ManualCreated(p) ==
    /\ Me(p).pc = "m_created"
    /\ LogStep(p, "CREATING_POST", "success",
               [Me(p) EXCEPT !.pc = "m_rights_info"], ManualDbCatch(Me(p)))

ManualDbError(p) ==
    /\ Me(p).pc = "m_db_error"
    /\ LogStep(p, "CREATING_POST", "error",
               [Me(p) EXCEPT !.pc = "fail_log", !.failCtx = "dberror"],
               ManualCatch(Me(p)))

ManualRightsInfo(p) ==
    /\ Me(p).pc = "m_rights_info"
    /\ LogStep(p, "CREATING_RIGHTS_REQUEST", "info",
               [Me(p) EXCEPT !.pc = "m_rights"], ManualCatch(Me(p)))

ManualRights(p) ==
    /\ Me(p).pc = "m_rights"
    /\ \/ /\ NoFault
          /\ rightsRequest' = rightsRequest \cup {NewRightsRequest(Me(p).ws, <<p, Me(p).i>>)}
          /\ SetInv(p, [Me(p) EXCEPT !.pc = "m_rights_ok"])
       \/ /\ Fault
          /\ SetInv(p, ManualRightsCatch(Me(p)))
          /\ UNCHANGED rightsRequest
    /\ UNCHANGED <<importLog, entries, ugcPost, sameMs, maxBatch, feed>>

ManualRightsOk(p) ==
    /\ Me(p).pc = "m_rights_ok"
    /\ LogStep(p, "CREATING_RIGHTS_REQUEST", "success",
               [Me(p) EXCEPT !.pc = "m_audit"], ManualRightsCatch(Me(p)))

ManualRightsWarning(p) ==
    /\ Me(p).pc = "m_rights_warning"
    /\ LogStep(p, "CREATING_RIGHTS_REQUEST", "warning",
               [Me(p) EXCEPT !.pc = "m_audit"], ManualCatch(Me(p)))

ManualAudit(p) ==
    /\ Me(p).pc = "m_audit"
    /\ \/ /\ NoFault
          /\ SetInv(p, [Me(p) EXCEPT !.pc = "m_progress"])
       \/ /\ Fault
          /\ SetInv(p, ManualCatch(Me(p)))
    /\ UNCHANGED <<importLog, entries, ugcPost, rightsRequest, sameMs, maxBatch, feed>>

ManualProgress(p) ==
    /\ Me(p).pc = "m_progress"
    /\ UpdateProgress(p, 1, 1, 0,
                      [Me(p) EXCEPT !.pc = "complete_log", !.finalStatus = "COMPLETED"],
                      ManualCatch(Me(p)))

ManualCatchError(p) ==
    /\ Me(p).pc = "m_catch_error"
    /\ LogStep(p, "FAILED", "error",
               [Me(p) EXCEPT !.pc = "fail_log", !.failCtx = "catch"],
               Unhandled(Me(p)))

----------------------------------------------------------------------------
(* ImportLogger.complete and ImportLogger.fail, as the two routes call them *)

RouteCatch(me) == IF me.route = "csv" THEN CsvCatch(me) ELSE ManualCatch(me)

\* where an exception thrown inside fail() goes
FailThrown(me) == IF me.failCtx = "catch" THEN Unhandled(me) ELSE ManualCatch(me)

\* what the route does once fail() has returned
AfterFail(me) ==
    CASE me.failCtx = "validation" -> Respond(me, 400)
      [] me.failCtx = "duplicate"  -> Respond(me, 409)
      [] me.failCtx = "dberror"    -> ManualCatch(me)
      [] me.failCtx = "catch"      -> Respond(me, 500)

\* what the route does once complete() has returned
AfterComplete(me) ==
    IF me.route = "csv" THEN [me EXCEPT !.pc = "c_audit"] ELSE Respond(me, 201)

CompleteLog(p) ==
    /\ Me(p).pc = "complete_log"
    /\ LogStep(p, "COMPLETED", "success",
               [Me(p) EXCEPT !.pc = "complete_update"], RouteCatch(Me(p)))

CompleteUpdate(p) ==
    /\ Me(p).pc = "complete_update"
    /\ CloseRun(p, Me(p).finalStatus, AfterComplete(Me(p)), RouteCatch(Me(p)))

FailLog(p) ==
    /\ Me(p).pc = "fail_log"
    /\ LogStep(p, "FAILED", "error",
               [Me(p) EXCEPT !.pc = "fail_update"], FailThrown(Me(p)))

FailUpdate(p) ==
    /\ Me(p).pc = "fail_update"
    /\ CloseRun(p, "FAILED", AfterFail(Me(p)), FailThrown(Me(p)))

----------------------------------------------------------------------------

Next ==
    \E p \in Procs :
        \/ Begin(p)
        \/ CsvAuthorize(p) \/ CsvStart(p) \/ CsvInfo(p) \/ CsvRow(p)
        \/ CsvInvalid(p) \/ CsvFind(p) \/ CsvDuplicate(p) \/ CsvCreate(p)
        \/ CsvRights(p) \/ CsvImported(p) \/ CsvProgress(p) \/ CsvRowError(p)
        \/ CsvFinal(p) \/ CsvAudit(p) \/ CsvCatchError(p)
        \/ ManualAuthorize(p) \/ ManualStart(p) \/ ManualInfo(p)
        \/ ManualValidate(p) \/ ManualInvalid(p) \/ ManualValid(p)
        \/ ManualFindInfo(p) \/ ManualFind(p) \/ ManualDuplicate(p)
        \/ ManualNew(p) \/ ManualHashtagsInfo(p) \/ ManualHashtags(p)
        \/ ManualCreateInfo(p) \/ ManualCreate(p) \/ ManualCreated(p)
        \/ ManualDbError(p) \/ ManualRightsInfo(p) \/ ManualRights(p)
        \/ ManualRightsOk(p) \/ ManualRightsWarning(p) \/ ManualAudit(p)
        \/ ManualProgress(p) \/ ManualCatchError(p)
        \/ CompleteLog(p) \/ CompleteUpdate(p) \/ FailLog(p) \/ FailUpdate(p)

Spec == Init /\ [][Next]_vars

SpecConcurrent == InitConcurrent /\ [][Next]_vars

SpecTags == InitTags /\ [][Next]_vars

SpecBatch == InitBatch /\ [][Next]_vars

----------------------------------------------------------------------------
(* Reading the tables *)

Runs == {r \in Procs : importLog[r] # NoLog}

RECURSIVE Perms(_)
\* the orders in which rows that compare equal may be returned
Perms(S) ==
    IF S = {} THEN {<<>>}
    ELSE UNION {{<<x>> \o t : t \in Perms(S \ {x})} : x \in S}

RECURSIVE SortedFrom(_, _)
SortedFrom(I, rows) ==
    IF I = {} THEN {<<>>}
    ELSE LET least == CHOOSE k \in I : \A j \in I : rows[k].createdAt <= rows[j].createdAt
             G == {k \in I : rows[k].createdAt = rows[least].createdAt}
         IN  {[j \in 1 .. Len(g) |-> rows[g[j]]] \o t :
                 g \in Perms(G), t \in SortedFrom(I \ G, rows)}

\* orderBy: { createdAt: 'asc' } over the entries of a run: every order the
\* store may return, rows of equal createdAt in any order
\* (rows stored with strictly increasing createdAt have one arrangement)
OrderByCreatedAtAsc(rows) ==
    IF \A k \in 1 .. Len(rows) - 1 : rows[k].createdAt < rows[k + 1].createdAt
    THEN {rows}
    ELSE SortedFrom(1 .. Len(rows), rows)

NotFound == [found |-> FALSE]

\* mutant: the run is looked up by id alone
getImportLog_ByIdOnly(logId, workspaceId) ==
    IF importLog[logId] = NoLog
    THEN {NotFound}
    ELSE {[found |-> TRUE, id |-> logId, log |-> importLog[logId], entries |-> e] :
            e \in OrderByCreatedAtAsc(entries[logId])}

\* getImportLog(logId, workspaceId): what the query may return
getImportLog(logId, workspaceId) ==
    IF importLog[logId] = NoLog \/ importLog[logId].workspaceId # workspaceId
    THEN {NotFound}
    ELSE {[found |-> TRUE, id |-> logId, log |-> importLog[logId], entries |-> e] :
            e \in OrderByCreatedAtAsc(entries[logId])}

RECURSIVE NewestFirst(_)
\* orderBy: { createdAt: 'desc' } over runs
NewestFirst(S) ==
    IF S = {} THEN <<>>
    ELSE LET newest == CHOOSE r \in S :
                 \A x \in S : importLog[x].createdAt <= importLog[r].createdAt
         IN  <<newest>> \o NewestFirst(S \ {newest})

\* getImportLogs(workspaceId, limit): what the query may return
getImportLogs(workspaceId, limit) ==
    LET mine == NewestFirst({r \in Runs : importLog[r].workspaceId = workspaceId})
        n == IF Len(mine) < limit THEN Len(mine) ELSE limit
        views(r) == {[found |-> TRUE, id |-> r, log |-> importLog[r], entries |-> e] :
                        e \in OrderByCreatedAtAsc(entries[r])}
    IN  {res \in [1 .. n -> UNION {views(mine[k]) : k \in 1 .. n}] :
            \A k \in 1 .. n : res[k].id = mine[k]}

\* what getWorkspaceContext(params.slug) may give a reader
ReaderContexts == Workspaces \cup {"none"}

\* ?limit= of the listing, 20 when absent
Limits == {1, 20}

\* GET /api/workspaces/[slug]/ugc/import-logs/[logId]: the possible answers
GET_importLog(context, logId) ==
    IF context = "none" THEN {[status |-> 404, log |-> NotFound]}
    ELSE {[status |-> IF log = NotFound THEN 404 ELSE 200, log |-> log] :
            log \in getImportLog(logId, context)}

\* GET /api/workspaces/[slug]/ugc/import-logs: the possible answers
GET_importLogs(context, limit) ==
    IF context = "none" THEN {[status |-> 404, logs |-> <<>>]}
    ELSE {[status |-> 200, logs |-> logs] : logs \in getImportLogs(context, limit)}

\* mutant: the last row errors are returned
Slice_Last(errors, n) ==
    SubSeq(errors, IF Len(errors) < n THEN 1 ELSE Len(errors) - n + 1, Len(errors))

\* errors.slice(0, 10)
Slice(errors, n) == SubSeq(errors, 1, IF Len(errors) < n THEN Len(errors) ELSE n)

\* the body and status NextResponse.json is given for a finished invocation;
\* hasCounts tells whether imported, skipped, failed and total are in the body
Response(me) ==
    IF me.route = "csv" /\ me.resp = 200
    THEN [status |-> 200, success |-> TRUE, importLogId |-> me.logId,
          hasCounts |-> TRUE, imported |-> me.imported, skipped |-> me.skipped,
          failed |-> me.failed, total |-> me.total,
          errors |-> Slice(me.errors, MaxErrorsReturned)]
    ELSE [status |-> me.resp, success |-> me.resp = 201,
          importLogId |-> IF me.failCtx = "unhandled" \/ me.resp \in {403, 404}
                          THEN NoLogId ELSE me.logId,
          hasCounts |-> FALSE, imported |-> 0, skipped |-> 0, failed |-> 0,
          total |-> 0, errors |-> <<>>]

TerminalStatus == {"COMPLETED", "FAILED", "PARTIAL"}

PostsOf(p) == {q \in ugcPost : q.id[1] = p}

RightsOf(p) == {r \in rightsRequest : r.ugcPostId[1] = p}

CountEntries(r, step, status) ==
    Cardinality({k \in 1 .. Len(entries[r]) :
        entries[r][k].step = step /\ entries[r][k].status = status})

Done(p) == inv[p].pc = "done"

----------------------------------------------------------------------------
(* C1 *)

\* C1: whatever the interleaving of concurrent manual and CSV imports, no two
\* rows of ugc_posts share (workspaceId, platform, postUrl).
C1_UniqueKey ==
    \A q1, q2 \in ugcPost :
        (q1.workspaceId = q2.workspaceId /\ q1.platform = q2.platform
            /\ q1.postUrl = q2.postUrl) => q1 = q2

\* two runs passed the lookup for one key; one has persisted it and the other's
\* create has been rejected by the index
C1_Witness ==
    \E p \in Procs : \E q \in Procs \ {p} :
        /\ inv[p].pc \in {"c_row_error", "m_db_error"}
        /\ faults = 1
        /\ inv[p].row.platform \in Platform
        /\ \E x \in PostsOf(q) :
              /\ x.workspaceId = inv[p].ws
              /\ x.platform = inv[p].row.platform
              /\ x.postUrl = inv[p].row.postUrl

----------------------------------------------------------------------------
(* C2 *)

\* C2: a manual import of a valid body whose key the lookup did not find, in
\* which no store call threw, answers 201, has created exactly one post and
\* exactly one rights request, PENDING, for that post, and leaves its run
\* COMPLETED with processed = 1, succeeded = 1, failed = 0.
C2_ManualImport ==
    \A p \in Procs :
        (inv[p].route = "manual" /\ Done(p) /\ inv[p].thrown = 0 /\ ~inv[p].allDup)
        => /\ inv[p].resp = 201
           /\ Cardinality(PostsOf(p)) = 1
           /\ \A x \in PostsOf(p) :
                 /\ x.workspaceId = inv[p].ws
                 /\ x.platform = inv[p].row.platform
                 /\ x.postUrl = inv[p].row.postUrl
           /\ Cardinality(RightsOf(p)) = 1
           /\ \A r \in RightsOf(p) :
                 r.status = "PENDING" /\ r.ugcPostId \in {x.id : x \in PostsOf(p)}
           /\ importLog[p] # NoLog
           /\ importLog[p].status = "COMPLETED"
           /\ importLog[p].processed = 1
           /\ importLog[p].succeeded = 1
           /\ importLog[p].failed = 0

C2_Witness ==
    \E p \in Procs :
        /\ inv[p].route = "manual" /\ Done(p) /\ inv[p].thrown = 0 /\ ~inv[p].allDup
        /\ inv[p].resp = 201
        /\ importLog[p].status = "COMPLETED"

----------------------------------------------------------------------------
(* C3 *)

\* the manual invocation p found its key stored by an invocation that had
\* answered before p began, and no store call of p threw
ResubmittedManual(p) ==
    /\ inv[p].route = "manual" /\ Done(p) /\ inv[p].thrown = 0
    /\ CountEntries(p, "CHECKING_DUPLICATE", "warning") = 1
    /\ \E q \in inv[p].after :
          /\ inv[q].route = "manual" /\ inv[q].resp = 201 /\ inv[q].thrown = 0
          /\ inv[q].ws = inv[p].ws /\ inv[q].row = inv[p].row

\* C3: when the same valid manual body is submitted in two separate
\* invocations, one post exists for it, the second invocation attempts no
\* create, its response is not an error and its run does not end FAILED.
C3_ResubmitIsNotAFailure ==
    \A p \in Procs :
        ResubmittedManual(p)
        => /\ Cardinality(ExistingPosts(inv[p].ws, inv[p].row.platform,
                                        inv[p].row.postUrl)) = 1
           /\ PostsOf(p) = {}
           /\ CountEntries(p, "CREATING_POST", "info") = 0
           /\ inv[p].resp < 400
           /\ importLog[p].status # "FAILED"

----------------------------------------------------------------------------
(* C4 *)

\* the CSV invocation p has answered 200, every one of its rows was found
\* stored by the lookup, and no store call of p threw
AllRowsDuplicate(p) ==
    /\ inv[p].route = "csv" /\ Done(p) /\ inv[p].resp = 200
    /\ inv[p].thrown = 0 /\ inv[p].allDup

\* C4: a CSV batch of N >= 1 rows, every one a duplicate of a stored post,
\* ends with imported = 0, failed = 0, skipped = N, its run COMPLETED with
\* succeeded = 0 and failed = 0, and creates no post and no rights request.
C4_AllDuplicates ==
    \A p \in Procs :
        AllRowsDuplicate(p)
        => /\ inv[p].total >= 1
           /\ inv[p].imported = 0 /\ inv[p].failed = 0
           /\ inv[p].skipped = inv[p].total
           /\ importLog[p].status = "COMPLETED"
           /\ importLog[p].succeeded = 0 /\ importLog[p].failed = 0
           /\ importLog[p].processed = inv[p].total
           /\ PostsOf(p) = {} /\ RightsOf(p) = {}

C4_Witness ==
    \E p \in Procs : AllRowsDuplicate(p) /\ inv[p].total >= 2

----------------------------------------------------------------------------
(* C5 *)

\* resolve(total, succeeded, failed) of the Aggregate Status Resolver gives
\* status, in the three cases it is defined for
ResolvesTo(total, succeeded, failed, status) ==
    /\ (total > 0 /\ failed = total) => status = "FAILED"
    /\ (failed > 0 /\ failed < total) => status = "PARTIAL"
    /\ failed = 0 => status = "COMPLETED"

\* C5: the status a CSV invocation that answers 200 leaves on its run is
\* resolve(total, succeeded, failed) of the counters stored with it: FAILED
\* when failed = total, PARTIAL when 0 < failed < total, COMPLETED when
\* failed = 0; when k rows (0 < k < N) failed validation, the other N - k were
\* imported and no store call threw, the run has succeeded = N - k,
\* failed = k and status PARTIAL.
C5_FinalStatus ==
    \A p \in Procs :
        (inv[p].route = "csv" /\ Done(p) /\ inv[p].resp = 200)
        => /\ importLog[p].totalItems = inv[p].total
           /\ importLog[p].status \in TerminalStatus
           /\ ResolvesTo(importLog[p].totalItems, importLog[p].succeeded,
                         importLog[p].failed, importLog[p].status)
           /\ LET k == CountEntries(p, "VALIDATING", "error")
                  m == CountEntries(p, "CREATING_POST", "success")
              IN (inv[p].thrown = 0 /\ 0 < k /\ k < inv[p].total
                    /\ m = inv[p].total - k)
                 => /\ importLog[p].succeeded = m
                    /\ importLog[p].failed = k
                    /\ importLog[p].status = "PARTIAL"

C5_Witness ==
    \E p \in Procs :
        /\ inv[p].route = "csv" /\ Done(p) /\ inv[p].resp = 200
        /\ inv[p].thrown = 0 /\ inv[p].total = 2
        /\ CountEntries(p, "VALIDATING", "error") = 1
        /\ CountEntries(p, "CREATING_POST", "success") = 1
        /\ importLog[p].status = "PARTIAL"

----------------------------------------------------------------------------
(* C6 *)

RowPcs ==
    {"c_row", "c_invalid", "c_find", "c_duplicate", "c_create", "c_rights",
     "c_imported", "c_progress", "c_row_error"}

----------------------------------------------------------------------------
(* C7 *)

PostsWithoutRights(p) ==
    {x \in PostsOf(p) : \A r \in rightsRequest : r.ugcPostId # x.id}

\* C7: in both routes, when the one store call that threw was the create of
\* the rights request, the post is kept, the failure is logged as
\* CREATING_RIGHTS_REQUEST warning and not as an error, the row counts as
\* succeeded and not as failed, and the final status is what it would be
\* without that failure.
C7_RightsFailureIsSwallowed ==
    \A p \in Procs :
        (Done(p) /\ inv[p].resp \in {200, 201} /\ inv[p].thrown = 1
            /\ PostsWithoutRights(p) # {})
        => /\ CountEntries(p, "CREATING_RIGHTS_REQUEST", "warning") = 1
           /\ CountEntries(p, "CREATING_POST", "error") = 0
           /\ importLog[p].succeeded = Cardinality(PostsOf(p))
           /\ importLog[p].failed = CountEntries(p, "VALIDATING", "error")
           /\ ResolvesTo(inv[p].total, importLog[p].succeeded,
                         CountEntries(p, "VALIDATING", "error"), importLog[p].status)

----------------------------------------------------------------------------
(* C8 *)

\* C8: every stored run has processed <= totalItems and
\* succeeded + failed <= processed.
C8_CounterInvariant ==
    \A r \in Runs :
        /\ importLog[r].processed <= importLog[r].totalItems
        /\ importLog[r].succeeded + importLog[r].failed <= importLog[r].processed

----------------------------------------------------------------------------
(* C9 *)

\* C9: whatever a single-run fetch or a run listing returns for a run, its
\* entries are in the order in which they were appended.
C9_ReadsInAppendOrder ==
    \A r \in Runs :
        /\ \A res \in getImportLog(r, importLog[r].workspaceId) :
              res.found /\ res.entries = entries[r]
        /\ \A res \in getImportLogs(importLog[r].workspaceId, 20) :
              \A k \in DOMAIN res : res[k].id = r => res[k].entries = entries[r]

----------------------------------------------------------------------------
(* C10 *)

TerminalStep == {"COMPLETED", "FAILED"}

\* C10: the log of a run that has a terminal status ends with an entry whose
\* step is COMPLETED or FAILED, and no earlier entry has such a step.
C10_TerminalEntryIsLast ==
    \A r \in Runs :
        importLog[r].status \in TerminalStatus
        => /\ entries[r] # <<>>
           /\ entries[r][Len(entries[r])].step \in TerminalStep
           /\ \A k \in 1 .. Len(entries[r]) - 1 : entries[r][k].step \notin TerminalStep

----------------------------------------------------------------------------
(* C11 *)

\* C11: once the invocation that created a run has returned, the run has a
\* terminal status and its completedAt is set, whichever step failed after
\* the run was created.
C11_ReturnedRunIsTerminal ==
    \A p \in Procs :
        (Done(p) /\ p \in Runs)
        => /\ importLog[p].status \in TerminalStatus
           /\ importLog[p].completedAt # NULL

----------------------------------------------------------------------------
(* C12 *)

OwnRuns(ws) == {r \in Runs : importLog[r].workspaceId = ws}

\* the entries of answer e are the entries of run r, in some order
EntriesOfRun(e, r) ==
    /\ Len(e) = Len(entries[r])
    /\ \A j \in 1 .. Len(e) : \E k \in 1 .. Len(entries[r]) : e[j] = entries[r][k]

\* C12: read through workspace ws, a run of another workspace is answered
\* 404 without the run or its entries, a run of ws is answered with that run
\* and its own entries, and the listing holds the newest runs of ws and only
\* those, as many as the limit allows whatever other workspaces have stored.
C12_TenantScopedReads ==
    \A ws \in Workspaces :
        /\ \A r \in Procs : \A resp \in GET_importLog(ws, r) :
              IF r \in OwnRuns(ws)
              THEN /\ resp.status = 200
                   /\ resp.log.id = r /\ resp.log.log = importLog[r]
                   /\ EntriesOfRun(resp.log.entries, r)
              ELSE resp = [status |-> 404, log |-> NotFound]
        /\ \A limit \in Limits : \A resp \in GET_importLogs(ws, limit) :
              LET logs == resp.logs
                  listed == {logs[k].id : k \in 1 .. Len(logs)}
              IN  /\ resp.status = 200
                  /\ listed \subseteq OwnRuns(ws)
                  /\ Cardinality(listed) = Len(logs)
                  /\ Len(logs) = IF Cardinality(OwnRuns(ws)) < limit
                                 THEN Cardinality(OwnRuns(ws)) ELSE limit
                  /\ \A k \in 1 .. Len(logs) :
                        /\ logs[k].log = importLog[logs[k].id]
                        /\ EntriesOfRun(logs[k].entries, logs[k].id)
                        /\ \A r \in OwnRuns(ws) \ listed :
                              importLog[r].createdAt < logs[k].log.createdAt

\* two finished runs with entries, one in each workspace
C12_Witness ==
    /\ Runs = Procs
    /\ \A p \in Procs : Done(p) /\ entries[p] # <<>>
    /\ importLog["i1"].workspaceId = "w1"
    /\ importLog["i2"].workspaceId = "w2"

----------------------------------------------------------------------------
(* C13 *)

\* the request of p was turned away before the import began
RejectedEarly(p) ==
    /\ Done(p)
    /\ \/ inv[p].resp \in {403, 404}
       \/ inv[p].route = "csv" /\ inv[p].resp = 400

\* C13: a request answered 404 (no workspace context), 403 (a role without
\* write permission, which is every role below MEMBER) or, on the CSV route,
\* 400 (no rows) has written no run, no entry, no post and no rights request.
C13_RejectedRequestWritesNothing ==
    /\ \A role \in WorkspaceRole :
          hasPermission(role, "write") <=> role \in {"OWNER", "ADMIN", "MEMBER"}
    /\ \A p \in Procs :
          RejectedEarly(p)
          => /\ importLog[p] = NoLog /\ inv[p].logId = NoLogId
             /\ entries[p] = <<>>
             /\ PostsOf(p) = {} /\ RightsOf(p) = {}
             /\ inv[p].created = 0

\* one request was refused for its role and another for its empty rows,
\* while nothing at all has been written
C13_Witness ==
    /\ RejectedEarly("i1") /\ inv["i1"].resp = 403
    /\ RejectedEarly("i2") /\ inv["i2"].route = "csv" /\ inv["i2"].resp = 400
    /\ Runs = {} /\ ugcPost = {} /\ rightsRequest = {}

----------------------------------------------------------------------------
(* C14 *)

\* C14: the answer of every invocation that created a run carries the id of
\* that run and the counters imported, skipped, failed and total; a CSV
\* invocation is answered 200 with success however many of its rows failed.
\* Stated for the invocations in which no store call threw.
C14_AnswerCarriesRunAndCounters ==
    \A p \in Procs :
        (Done(p) /\ p \in Runs /\ inv[p].thrown = 0)
        => /\ Response(inv[p]).importLogId = p
           /\ Response(inv[p]).hasCounts
           /\ Response(inv[p]).total = importLog[p].totalItems
           /\ inv[p].route = "csv"
                 => /\ Response(inv[p]).status = 200 /\ Response(inv[p]).success
                    /\ Response(inv[p]).imported + Response(inv[p]).skipped
                          + Response(inv[p]).failed = Response(inv[p]).total

----------------------------------------------------------------------------
(* C15 *)

\* the create of p's row was rejected by the unique index after p's lookup
\* had found no record, and the one store call that may throw has not thrown
LostTheRace(p) ==
    /\ Done(p) /\ p \in Runs
    /\ inv[p].lost = 1
    /\ \E q \in ugcPost : /\ q.id[1] # p /\ q.workspaceId = inv[p].ws
                          /\ q.platform = inv[p].row.platform
                          /\ q.postUrl = inv[p].row.postUrl
    /\ faults = 1

\* C15: the run that lost the race has one CREATING_POST error entry, has
\* failed = 1 for the row, did not try the row again, went through all its
\* rows, ended in a terminal status and was not answered as an internal
\* error.
C15_RaceLoserFailsOneRow ==
    \A p \in Procs :
        LostTheRace(p)
        => /\ CountEntries(p, "CREATING_POST", "error") = 1
           /\ importLog[p].failed = 1
           /\ inv[p].created = 0 /\ PostsOf(p) = {}
           /\ importLog[p].processed = importLog[p].totalItems
           /\ importLog[p].status \in TerminalStatus
           /\ inv[p].resp # 500
           /\ CountEntries(p, "FAILED", "error") <= 1

----------------------------------------------------------------------------
(* C16 *)

\* the request of p was authorized and its logger.start() threw
StartFailed(p) ==
    /\ Done(p)
    /\ inv[p].total >= 1 /\ inv[p].ws \in Workspaces
    /\ inv[p].logId = NoLogId
    /\ inv[p].thrown = 1

\* C16: when logger.start() threw, the request is answered with an error, no
\* run and no entry is stored for it, and it has created no post and no
\* rights request.
C16_NoRunNoImport ==
    \A p \in Procs :
        StartFailed(p)
        => /\ Response(inv[p]).status = 500 /\ ~Response(inv[p]).success
           /\ Response(inv[p]).importLogId = NoLogId
           /\ importLog[p] = NoLog /\ entries[p] = <<>>
           /\ inv[p].created = 0
           /\ PostsOf(p) = {} /\ RightsOf(p) = {}

\* start() threw for a CSV request with rows, against a store that holds posts
C16_Witness ==
    /\ StartFailed("i1") /\ inv["i1"].route = "csv"
    /\ inv["i1"].total = MaxRows
    /\ ugcPost # {}

----------------------------------------------------------------------------
(* C17 *)

\* C17: a run is closed (status and completedAt written) at most once, and it
\* has a terminal status and a completedAt exactly when it has been closed.
C17_ClosedOnce ==
    \A r \in Runs :
        /\ importLog[r].closed <= 1
        /\ importLog[r].status \in TerminalStatus <=> importLog[r].closed = 1
        /\ importLog[r].completedAt # NULL <=> importLog[r].closed = 1

----------------------------------------------------------------------------
(* C18 *)

LastEntry(r) == entries[r][Len(entries[r])]

\* C18: the last entry of a run with a terminal status is FAILED / error when
\* the status is FAILED, and COMPLETED / success when the status is COMPLETED
\* or PARTIAL.
C18_TerminalEntryAgrees ==
    \A r \in Runs :
        (importLog[r].status \in TerminalStatus /\ entries[r] # <<>>)
        => IF importLog[r].status = "FAILED"
           THEN LastEntry(r).step = "FAILED" /\ LastEntry(r).status = "error"
           ELSE LastEntry(r).step = "COMPLETED" /\ LastEntry(r).status = "success"

----------------------------------------------------------------------------
(* C19 *)

\* the run of p had one row, that row failed validation, and no store call
\* threw
OnlyRowInvalid(p) ==
    /\ Done(p) /\ p \in Runs
    /\ inv[p].total = 1 /\ inv[p].row = NoRow
    /\ inv[p].thrown = 0

\* C19: in both routes a finished run whose only row failed validation has one
\* VALIDATING error entry and the stored counters failed = 1, processed = 1.
C19_InvalidRowIsCounted ==
    \A p \in Procs :
        OnlyRowInvalid(p)
        => /\ CountEntries(p, "VALIDATING", "error") = 1
           /\ importLog[p].failed = 1
           /\ importLog[p].processed = 1

----------------------------------------------------------------------------
(* C20 *)

LookupPcs == {"c_find", "m_find"}

CreatePcs == {"c_create", "m_create"}

\* the steps of the manual route between a lookup that found none and the
\* create
ManualNewPcs == {"m_new", "m_hashtags_info", "m_hashtags", "m_create_info", "m_create"}

\* C20: the lookup of a row is made with a key that passed validation; the
\* create of a row is reached only from a lookup of that row that found no
\* record; a post is written only by the create step of a row, which writes
\* one post under the validated key and is not taken again for that row.
C20_RowStepsInOrder ==
    [][\A p \in Procs :
        /\ inv[p].pc \in LookupPcs \cup CreatePcs
              => /\ urlSchema(inv[p].row.postUrl)
                 /\ inv[p].i >= 1 /\ inv[p].i <= inv[p].total
        /\ (inv[p].pc # "c_create" /\ inv'[p].pc = "c_create")
              => /\ inv[p].pc = "c_find" /\ inv'[p].i = inv[p].i
                 /\ inv'[p].row = inv[p].row
                 /\ ExistingPosts(inv[p].ws, inv[p].row.platform, inv[p].row.postUrl) = {}
        /\ (inv[p].pc \notin ManualNewPcs /\ inv'[p].pc \in ManualNewPcs)
              => /\ inv[p].pc = "m_find" /\ inv'[p].pc = "m_new"
                 /\ inv'[p].row = inv[p].row
                 /\ ExistingPosts(inv[p].ws, inv[p].row.platform, inv[p].row.postUrl) = {}
        /\ inv'[p].created # inv[p].created
              => /\ inv[p].pc \in CreatePcs /\ inv'[p].pc \notin CreatePcs
                 /\ inv'[p].created = inv[p].created + 1
                 /\ inv'[p].created <= inv[p].i
                 /\ \E q \in ugcPost' \ ugcPost :
                       /\ ugcPost' = ugcPost \cup {q}
                       /\ q.id = <<p, inv[p].i>> /\ q.workspaceId = inv[p].ws
                       /\ q.platform = inv[p].row.platform
                       /\ q.postUrl = inv[p].row.postUrl
        /\ PostsOf(p) # {q \in ugcPost' : q.id[1] = p}
              => inv'[p].created = inv[p].created + 1
    ]_vars

\* of two rows the first failed validation and was never looked up, the
\* second was looked up, found new and persisted once
C20_Witness ==
    \E p \in Procs :
        /\ inv[p].route = "csv" /\ Done(p) /\ inv[p].resp = 200
        /\ inv[p].total = 2 /\ inv[p].errors = <<1>>
        /\ inv[p].created = 1 /\ inv[p].thrown = 0
        /\ PostsOf(p) = {q \in ugcPost : q.id = <<p, 2>>}
        /\ Cardinality(PostsOf(p)) = 1

----------------------------------------------------------------------------
(* C23 *)

\* the places of a caption where a # is followed by a word character
TokenStarts(caption) ==
    {k \in 1 .. Len(caption) - 1 : caption[k] = "#" /\ WordChar(caption[k + 1])}

\* the last place of the maximal run of word characters after the # at k
TokenEnd(caption, k) ==
    CHOOSE e \in k + 1 .. Len(caption) :
        /\ \A j \in k + 1 .. e : WordChar(caption[j])
        /\ e = Len(caption) \/ ~WordChar(caption[e + 1])

\* the tokens of a caption in order of occurrence, without the # and in lower case
TokensOf(caption) ==
    LET starts == TokenStarts(caption)
        nth(n) == CHOOSE k \in starts : Cardinality({j \in starts : j < k}) = n - 1
    IN  [n \in 1 .. Cardinality(starts) |->
            toLowerCase(SubSeq(caption, nth(n) + 1, TokenEnd(caption, nth(n))))]

\* the manual invocation p stored a post for a body with a caption and
\* without hashtags
StoredFromCaption(p) ==
    /\ inv[p].route = "manual" /\ PostsOf(p) # {}
    /\ inv[p].row.hashtags = Absent /\ inv[p].row.caption # Absent

\* C23: the hashtags extracted from a caption are, in order of occurrence,
\* its maximal tokens of # and one or more word characters, without the #
\* and lower-cased: none when the caption has no such token, repeated tags
\* kept, punctuation after a tag left out; "Great #Deal and #SUMMER23!"
\* gives "deal", "summer23".
C23_ExtractHashtags ==
    \A p \in Procs :
        StoredFromCaption(p)
        => \A x \in PostsOf(p) :
              /\ x.hashtags = TokensOf(inv[p].row.caption[1])
              /\ TokenStarts(inv[p].row.caption[1]) = {} => x.hashtags = <<>>
              /\ inv[p].row.caption[1] = GreatDeal
                    => x.hashtags = << <<"d", "e", "a", "l">>,
                                       <<"s", "u", "m", "m", "e", "r", "2", "3">> >>
              /\ inv[p].row.caption[1] = <<"#", "a", "_", "1", "-", "#", "Z", ",", "#", ".", "#", "a", "_", "1">>
                    => x.hashtags = << <<"a", "_", "1">>, <<"z">>, <<"a", "_", "1">> >>

\* the post of a manual import was stored with the two tags of
\* "Great #Deal and #SUMMER23!"
C23_Witness ==
    \E p \in Procs :
        /\ StoredFromCaption(p) /\ Done(p) /\ inv[p].resp = 201
        /\ inv[p].row.caption = Given(GreatDeal)
        /\ \E x \in PostsOf(p) : Len(x.hashtags) = 2

----------------------------------------------------------------------------
(* C22 *)

\* the hashtags a row supplies: the array of a manual body, the items of the
\* comma-separated column of a CSV row
SuppliedHashtags(route, row) ==
    IF route = "manual" THEN row.hashtags[1]
    ELSE LET pieces == split(row.hashtags[1], ",")
         IN  [k \in 1 .. Len(pieces) |-> trim(pieces[k])]

SuppliesHashtags(route, row) ==
    /\ row.hashtags # Absent
    /\ route = "csv" => row.hashtags[1] # <<>>

\* the one rule: the supplied hashtags lower-cased, else the tokens of the
\* caption
HashtagRule(route, row) ==
    IF SuppliesHashtags(route, row)
    THEN LET tags == SuppliedHashtags(route, row)
         IN  [k \in 1 .. Len(tags) |-> toLowerCase(tags[k])]
    ELSE IF row.caption # Absent THEN TokensOf(row.caption[1])
    ELSE <<>>

\* C22: the post either route has just stored for a row carries the hashtags
\* of the one rule: the hashtags the row supplied, lower-cased, or else the
\* tokens of its caption.
C22_HashtagsFollowOneRule ==
    \A p \in Procs :
        inv[p].pc \in {"c_rights", "m_created"}
        => \A x \in PostsOf(p) :
              x.id = <<p, inv[p].i>> => x.hashtags = HashtagRule(inv[p].route, inv[p].row)

----------------------------------------------------------------------------
(* C21 *)

\* C21: the platform with which a CSV row reaches the duplicate lookup or the
\* create is a member of the enumeration TIKTOK, INSTAGRAM, YOUTUBE, MANUAL;
\* a row whose upper-cased platform is no member has failed validation before.
C21_PlatformIsMatched ==
    \A p \in Procs :
        (inv[p].route = "csv" /\ inv[p].pc \in LookupPcs \cup CreatePcs)
        => inv[p].row.platform \in Platform

----------------------------------------------------------------------------
(* C24 *)

\* the stored counters of p's run are those of the controller after row i
ProgressStored(p, i) ==
    /\ importLog[p].processed = i
    /\ importLog[p].succeeded = inv[p].imported
    /\ importLog[p].failed = inv[p].failed

\* C24: when a CSV batch moves on from a row whose number is a multiple of
\* five, and when it has finalized after its last row, the run holds
\* processed = that number and the succeeded and failed counters of the
\* controller, whatever the outcome of the row.
C24_ProgressEveryFifthRow ==
    \A p \in Procs :
        (inv[p].route = "csv" /\ p \in Runs)
        => /\ (inv[p].pc = "c_row" /\ inv[p].i > 0 /\ inv[p].i % ProgressEvery = 0)
                 => ProgressStored(p, inv[p].i)
           /\ inv[p].pc \in {"complete_log", "complete_update", "c_audit"}
                 => ProgressStored(p, inv[p].total)

----------------------------------------------------------------------------
(* C27 *)

\* the CSV invocation p was answered 200
CsvAnswered(p) == inv[p].route = "csv" /\ Done(p) /\ inv[p].resp = 200

----------------------------------------------------------------------------
(* C28 *)

\* C28: in the answer of a CSV import that was answered 200, imported,
\* skipped and failed add up to total, each row being counted once, also when
\* a log append inside a row threw.
C28_CountersPartitionRows ==
    \A p \in Procs :
        CsvAnswered(p)
        => Response(inv[p]).imported + Response(inv[p]).skipped
              + Response(inv[p]).failed = Response(inv[p]).total

----------------------------------------------------------------------------
(* C26 *)

\* C26: a run ends PARTIAL only if a post was created for one of its rows and
\* another of its rows failed; a run that created no post does not end
\* PARTIAL.  Stated for the runs in which no store call threw.
C26_PartialMeansMixed ==
    \A p \in Procs :
        (p \in Runs /\ importLog[p].status = "PARTIAL" /\ inv[p].thrown = 0)
        => /\ PostsOf(p) # {}
           /\ importLog[p].succeeded >= 1
           /\ importLog[p].failed >= 1

----------------------------------------------------------------------------
(* C25 *)

\* the entries of one imported row, in causal order; the last may have any
\* status
RowTrail ==
    << <<"VALIDATING", "info">>, <<"VALIDATING", "success">>,
       <<"CHECKING_DUPLICATE", "success">>, <<"EXTRACTING_HASHTAGS", "success">>,
       <<"CREATING_POST", "success">>, <<"CREATING_RIGHTS_REQUEST", "any">> >>

RECURSIVE Trails(_)
\* the trails of n rows, one after the other
Trails(n) == IF n = 0 THEN <<>> ELSE RowTrail \o Trails(n - 1)

IsEntry(entry, wanted) ==
    entry.step = wanted[1] /\ (wanted[2] = "any" \/ entry.status = wanted[2])

RECURSIVE HoldsInOrder(_, _, _)
\* the log holds the wanted entries from wanted[k] on, in this order
HoldsInOrder(log, wanted, k) ==
    IF k > Len(wanted) THEN TRUE
    ELSE IF log = <<>> THEN FALSE
    ELSE HoldsInOrder(Tail(log), wanted, IF IsEntry(Head(log), wanted[k]) THEN k + 1 ELSE k)

\* every row of p was imported and no store call threw
AllRowsImported(p) ==
    /\ Done(p) /\ p \in Runs /\ inv[p].thrown = 0
    /\ inv[p].created = inv[p].total

\* C25: in both routes the log of a run holds, for each imported row and row
\* after row, the entries VALIDATING info, VALIDATING success,
\* CHECKING_DUPLICATE success, EXTRACTING_HASHTAGS success, CREATING_POST
\* success and a CREATING_RIGHTS_REQUEST entry, in this order.
C25_RowEntriesInCausalOrder ==
    \A p \in Procs :
        AllRowsImported(p) => HoldsInOrder(entries[p], Trails(inv[p].total), 1)

----------------------------------------------------------------------------
(* C29 *)

\* C29: the succeeded counter stored with a run that has a terminal status is
\* the number of posts the run created, in both routes.
C29_SucceededCountsPosts ==
    \A r \in Runs :
        importLog[r].status \in TerminalStatus
        => importLog[r].succeeded = Cardinality(PostsOf(r))

----------------------------------------------------------------------------
(* C30 *)

\* the tenant the manual route constructs its logger with
PlaceholderTenant == ""

\* C30: every stored run carries the workspace that was resolved for the
\* caller of its invocation, never the placeholder the manual route
\* constructs its logger with; a run is opened only by an invocation whose
\* logger holds the resolved workspace; and whatever a reader is answered
\* with is a run of the reader's own workspace.
C30_RunsCarryTheTenant ==
    /\ \A r \in Runs :
          /\ importLog[r].workspaceId # PlaceholderTenant
          /\ importLog[r].workspaceId \in Workspaces
          /\ importLog[r].workspaceId = inv[r].ws
    /\ \A p \in Procs :
          inv[p].pc \in {"m_start", "c_start"}
          => inv[p].loggerWs = inv[p].ws /\ inv[p].ws \in Workspaces
    /\ \A context \in ReaderContexts \cup {PlaceholderTenant} : \A r \in Procs :
          \A answer \in GET_importLog(context, r) :
              answer.status = 200
              => /\ answer.log.log.workspaceId \in Workspaces
                 /\ answer.log.log.workspaceId = context

\* a manual invocation, begun with the placeholder, has stored its run under
\* the workspace of its caller and a reader of that workspace is given it
C30_Witness ==
    \E p \in Procs :
        /\ inv[p].route = "manual" /\ Done(p) /\ inv[p].resp = 201
        /\ p \in Runs /\ importLog[p].workspaceId = "w2"
        /\ \E answer \in GET_importLog("w2", p) : answer.status = 200

====
